---- MODULE Spec2Model ----
(***************************************************************************)
(* Project Exhibition Portal (server.js): peer review of faculty project   *)
(* proposals, student applications and the admin account operations.       *)
(*                                                                         *)
(* The state is the content of the three MongoDB collections (users,       *)
(* projects, applications) plus the HTTP status of the last answered       *)
(* request.  Every request handler is one action.  The panel computed by   *)
(* getNextReviewers at submission is not stored by the code; it is kept    *)
(* here in the history variable assignedReviewers so that statements about *)
(* "the assigned reviewers" can be written down at all.                    *)
(***************************************************************************)
EXTENDS Integers, Sequences, FiniteSets, TLC

VARIABLES
  users,              \* _id's of the documents of the users collection
  projectsReviewed,   \* userSchema.projectsReviewed of every faculty member
  projects,           \* the projects collection: project _id -> document
  applications,       \* the applications collection: application _id -> document
  assignedReviewers,  \* history: project _id -> panel computed at submission
  requests,           \* POST /api/projects requests suspended at an await
  response            \* the last answered request: [op, code]

vars == <<users, projectsReviewed, projects, applications, assignedReviewers,
          requests, response>>

-----------------------------------------------------------------------------
(* Bounds of the model *)

MaxProjects == 1        \* projects ever submitted (Spec)
MaxApprovals == 3       \* entries of reviewedBy per project
MaxRejections == 2      \* entries of rejectionComments per project
MaxApplications == 2    \* application documents existing at one time
MaxSeatsAvailable == 3  \* cap of seatsAvailable under repeated application rejects
MaxSubmitted == 8       \* projects ever submitted (SpecSubmit)
MaxInFlight == 2        \* requests suspended at one time (SpecSubmit)
MaxOffered == 2         \* projects ever submitted (SpecApplications)
MaxAssigned == 8        \* projects ever submitted (SpecAssign)
MaxConcluded == 8       \* projects ever submitted (SpecWorkload)
MaxListed == 2          \* projects ever submitted (SpecApply)
MaxApplied == 4         \* applications stored or requested (SpecApply)
MaxChoices == 4         \* projects ever submitted (SpecChoice)

(* Program constants *)

PanelSize == 5
ApprovalsNeeded == 3
WorkloadLimit == 7
MaxCommentLength == 2500
MaxAbstractLength == 2500
ApplicationLimit == 3

-----------------------------------------------------------------------------
(* The accounts.  A user is named by its _id; role, areaOfResearch and      *)
(* loginId are the fields fixed at account creation.                        *)

Admins == {"admin"}
FacultyX == {"f1", "f2", "f3", "f4", "f5", "f6"}
FacultyY == {"g1", "g2", "g3", "g4", "g5", "g6", "g7"}
Faculty == FacultyX \cup FacultyY
Students == {"s1", "s2"}
AllUsers == Admins \cup Faculty \cup Students

role(u) ==
  IF u \in Admins THEN "admin" ELSE IF u \in Faculty THEN "faculty" ELSE "student"

areaOfResearch(u) ==
  IF u \in FacultyX THEN "X" ELSE IF u \in FacultyY THEN "Y" ELSE "undefined"

\* Six-digit faculty login ids; their order is not the order of the _id's.
loginId(u) ==
  CASE u = "f1" -> 100400
    [] u = "f2" -> 100100
    [] u = "f3" -> 100600
    [] u = "f4" -> 100200
    [] u = "f5" -> 100500
    [] u = "f6" -> 100300
    [] u = "g1" -> 100050
    [] u = "g2" -> 100750
    [] u = "g3" -> 100150
    [] u = "g4" -> 100650
    [] u = "g5" -> 100250
    [] u = "g6" -> 100550
    [] u = "g7" -> 100350
    [] OTHER -> 0

-----------------------------------------------------------------------------
(* Helpers *)

Range(s) == {s[i] : i \in DOMAIN s}

Restrict(f, S) == [x \in S |-> f[x]]

Min(S) == CHOOSE x \in S : \A y \in S : x <= y

\* .sort({ loginId: 1 }): the members of S in ascending loginId order
RECURSIVE sortByLoginId(_)
sortByLoginId(S) ==
  IF S = {} THEN <<>>
  ELSE LET first == CHOOSE u \in S : \A v \in S : loginId(u) <= loginId(v)
       IN <<first>> \o sortByLoginId(S \ {first})

\* the ring without the exclusion of the proposer
facultyInAreaWithProposer(area, proposingFacultyId) ==
  sortByLoginId({u \in users : /\ role(u) = "faculty"
                               /\ areaOfResearch(u) = area})
\* getNextReviewers: User.find(...).sort({ loginId: 1 })
facultyInArea(area, proposingFacultyId) ==
  sortByLoginId({u \in users : /\ role(u) = "faculty"
                               /\ areaOfResearch(u) = area
                               /\ u # proposingFacultyId})

\* the throw with the threshold one too low
notEnoughFacultyBelowFour(area, proposingFacultyId) ==
  Len(facultyInArea(area, proposingFacultyId)) < PanelSize - 1
\* getNextReviewers: the throw of line 100-102
notEnoughFaculty(area, proposingFacultyId) ==
  Len(facultyInArea(area, proposingFacultyId)) < PanelSize

startIndex(projectCount, ringSize) == (projectCount * PanelSize) % ringSize

\* getNextReviewers, lines 104-112 (TLA+ sequences are 1-based)
getNextReviewers(area, proposingFacultyId, projectCount) ==
  LET ring == facultyInArea(area, proposingFacultyId)
      start == startIndex(projectCount, Len(ring))
  IN [i \in 1..PanelSize |-> ring[((start + (i - 1)) % Len(ring)) + 1]]

\* POST /api/projects: Project.countDocuments({ faculty: { $in: users of the area } })
projectCount(area) ==
  Cardinality({p \in DOMAIN projects :
                 /\ projects[p].faculty \in users
                 /\ areaOfResearch(projects[p].faculty) = area})

\* the workload check with > in place of >=
overloadedAboveLimit(reviewers) ==
  \E i \in DOMAIN reviewers : projectsReviewed[reviewers[i]] > WorkloadLimit
\* POST /api/projects: reviewers.find(r => r.projectsReviewed >= 7)
overloadedReviewer(reviewers) ==
  \E i \in DOMAIN reviewers : projectsReviewed[reviewers[i]] >= WorkloadLimit

nextProjectId == Cardinality(DOMAIN assignedReviewers) + 1

nextApplicationId ==
  Min((1..(Cardinality(DOMAIN applications) + 1)) \ DOMAIN applications)

respond(op, code) == response' = [op |-> op, code |-> code]

-----------------------------------------------------------------------------
(* Initial state: the accounts exist, nothing has been submitted.           *)

Init ==
  /\ users = AllUsers
  /\ projectsReviewed = [u \in Faculty |-> 0]
  /\ projects = <<>>
  /\ applications = <<>>
  /\ assignedReviewers = <<>>
  /\ requests = <<>>
  /\ response = [op |-> "none", code |-> 0]

-----------------------------------------------------------------------------
(* POST /api/projects *)

newProject(f, seats) ==
  [faculty |-> f, status |-> "pending", seats |-> seats, seatsAvailable |-> seats,
   reviewedBy |-> <<>>, rejectionComments |-> <<>>]

\* $inc of projectsReviewed for every faculty member of the reviewers' area
incrementAreaFaculty(reviewers) ==
  [u \in Faculty |-> IF areaOfResearch(u) = areaOfResearch(reviewers[1])
                     THEN projectsReviewed[u] + 1
                     ELSE projectsReviewed[u]]
\* $inc of projectsReviewed for the reviewers just computed
incrementReviewers(reviewers) ==
  [u \in Faculty |-> IF u \in Range(reviewers) THEN projectsReviewed[u] + 1
                     ELSE projectsReviewed[u]]

submitCode(f, abstractLength, seats) ==
  IF f \notin users THEN 401
  ELSE IF role(f) # "faculty" THEN 403
  ELSE IF abstractLength > MaxAbstractLength THEN 400
  ELSE IF notEnoughFaculty(areaOfResearch(f), f) THEN 500
  ELSE IF overloadedReviewer(getNextReviewers(areaOfResearch(f), f,
                                              projectCount(areaOfResearch(f)))) THEN 400
  ELSE IF seats < 1 THEN 500      \* schema validation of seats (min: 1) at save
  ELSE 201

SubmitProject(f, abstractLength, seats) ==
  LET code == submitCode(f, abstractLength, seats)
      area == areaOfResearch(f)
      reviewers == getNextReviewers(area, f, projectCount(area))
      id == nextProjectId
  IN /\ respond("submit", code)
     /\ IF code = 201
        THEN /\ projects' = (id :> newProject(f, seats)) @@ projects
             /\ assignedReviewers' = (id :> reviewers) @@ assignedReviewers
             /\ projectsReviewed' = incrementReviewers(reviewers)
             /\ UNCHANGED <<users, applications, requests>>
        ELSE UNCHANGED <<users, projectsReviewed, projects, applications,
                         assignedReviewers, requests>>

-----------------------------------------------------------------------------
(* POST /api/projects/:id/approve *)

\* every faculty member passes the area check
sameAreaAlways(f, p) == TRUE

\* the only check made on the reviewer, lines 446-448 resp. 483-485
sameArea(f, p) == areaOfResearch(projects[p].faculty) = areaOfResearch(f)

reviewCode(f, p) ==
  IF f \notin users THEN 401
  ELSE IF role(f) # "faculty" THEN 403
  ELSE IF p \notin DOMAIN projects THEN 404
  ELSE IF ~sameArea(f, p) THEN 403
  ELSE 200

\* approved with the threshold one too low
approvedTooEarly(project, f) ==
  LET pushed == Append(project.reviewedBy, f)
  IN [project EXCEPT !.reviewedBy = pushed,
                     !.status = IF Len(pushed) >= 2 THEN "approved"
                                ELSE project.status]

\* lines 450-455
approved(project, f) ==
  LET pushed == Append(project.reviewedBy, f)
  IN [project EXCEPT !.reviewedBy = pushed,
                     !.status = IF Len(pushed) >= ApprovalsNeeded THEN "approved"
                                ELSE project.status]

\* an approval also closes the project's seats
ApproveProjectClosingSeats(f, p) ==
  LET code == reviewCode(f, p)
  IN /\ respond("approve", code)
     /\ IF code = 200
        THEN /\ projects' = [projects EXCEPT
                               ![p] = [approved(projects[p], f)
                                         EXCEPT !.seatsAvailable = 0]]
             /\ UNCHANGED <<users, projectsReviewed, applications, assignedReviewers, requests>>
        ELSE UNCHANGED <<users, projectsReviewed, projects, applications,
                         assignedReviewers, requests>>

ApproveProject(f, p) ==
  LET code == reviewCode(f, p)
  IN /\ respond("approve", code)
     /\ IF code = 200
        THEN /\ projects' = [projects EXCEPT ![p] = approved(projects[p], f)]
             /\ UNCHANGED <<users, projectsReviewed, applications, assignedReviewers, requests>>
        ELSE UNCHANGED <<users, projectsReviewed, projects, applications,
                         assignedReviewers, requests>>

-----------------------------------------------------------------------------
(* POST /api/projects/:id/reject *)

\* the comment is not looked at
rejectCodeAnyComment(f, p, commentLength) ==
  IF f \notin users THEN 401
  ELSE IF role(f) # "faculty" THEN 403
  ELSE reviewCode(f, p)

rejectCode(f, p, commentLength) ==
  IF f \notin users THEN 401
  ELSE IF role(f) # "faculty" THEN 403
  ELSE IF commentLength = 0 \/ commentLength > MaxCommentLength THEN 400
  ELSE reviewCode(f, p)

\* rejected, except that a project with approvals keeps its status
rejectedUnlessApproved(project, f, commentLength) ==
  [project EXCEPT !.rejectionComments =
                     Append(project.rejectionComments,
                            [faculty |-> f, comment |-> commentLength]),
                  !.status = IF Len(project.reviewedBy) > 0 THEN project.status
                             ELSE "rejected"]

\* lines 487-493
rejected(project, f, commentLength) ==
  [project EXCEPT !.rejectionComments =
                     Append(project.rejectionComments,
                            [faculty |-> f, comment |-> commentLength]),
                  !.status = "rejected"]

\* lines 497-500: User.updateMany({ areaOfResearch, role: 'faculty' }, $inc -1)
decrementReviewers(f) ==
  [u \in Faculty |->
     IF u \in users /\ role(u) = "faculty" /\ areaOfResearch(u) = areaOfResearch(f)
     THEN projectsReviewed[u] - 1
     ELSE projectsReviewed[u]]

RejectProject(f, p, commentLength) ==
  LET code == rejectCode(f, p, commentLength)
  IN /\ respond("reject", code)
     /\ IF code = 200
        THEN /\ projects' = [projects EXCEPT ![p] = rejected(projects[p], f, commentLength)]
             /\ projectsReviewed' = decrementReviewers(f)
             /\ UNCHANGED <<users, applications, assignedReviewers, requests>>
        ELSE UNCHANGED <<users, projectsReviewed, projects, applications,
                         assignedReviewers, requests>>

-----------------------------------------------------------------------------
(* POST /api/applications *)

applicationsOf(s) == {a \in DOMAIN applications : applications[a].student = s}

\* the count without the rejected applications
applicationCountActive(s) ==
  Cardinality({a \in applicationsOf(s) : applications[a].status # "rejected"})
\* line 517: Application.countDocuments({ student })
applicationCount(s) == Cardinality(applicationsOf(s))

\* the checks with the seat check letting 0 through
applyCodeSeatsBelowZero(s, p) ==
  IF s \notin users THEN 401
  ELSE IF role(s) # "student" THEN 403
  ELSE IF applicationCount(s) >= ApplicationLimit THEN 400
  ELSE IF \E a \in applicationsOf(s) : applications[a].project = p THEN 400
  ELSE IF p \notin DOMAIN projects THEN 404
  ELSE IF projects[p].status # "approved" THEN 400
  ELSE IF projects[p].seatsAvailable < 0 THEN 400
  ELSE 201
\* lines 511-539
applyCode(s, p) ==
  IF s \notin users THEN 401
  ELSE IF role(s) # "student" THEN 403
  ELSE IF applicationCount(s) >= ApplicationLimit THEN 400
  ELSE IF \E a \in applicationsOf(s) : applications[a].project = p THEN 400
  ELSE IF p \notin DOMAIN projects THEN 404
  ELSE IF projects[p].status # "approved" THEN 400
  ELSE IF projects[p].seatsAvailable <= 0 THEN 400
  ELSE 201

\* the apply that saves the application and leaves the seats alone
ApplyWithoutSeat(s, p) ==
  LET code == applyCode(s, p)
      id == nextApplicationId
  IN /\ respond("apply", code)
     /\ IF code = 201
        THEN /\ applications' =
                  (id :> [student |-> s, project |-> p, status |-> "pending"])
                  @@ applications
             /\ UNCHANGED <<users, projectsReviewed, projects, assignedReviewers,
                            requests>>
        ELSE UNCHANGED <<users, projectsReviewed, projects, applications,
                         assignedReviewers, requests>>
\* lines 509-559
Apply(s, p) ==
  LET code == applyCode(s, p)
      id == nextApplicationId
  IN /\ respond("apply", code)
     /\ IF code = 201
        THEN /\ applications' =
                  (id :> [student |-> s, project |-> p, status |-> "pending"])
                  @@ applications
             /\ projects' = [projects EXCEPT ![p].seatsAvailable = @ - 1]
             /\ UNCHANGED <<users, projectsReviewed, assignedReviewers, requests>>
        ELSE UNCHANGED <<users, projectsReviewed, projects, applications,
                         assignedReviewers, requests>>

-----------------------------------------------------------------------------
(* POST /api/applications/:id/select and /reject *)

\* the checks without the comparison of the project's owner
decideCodeAnyFaculty(f, a) ==
  IF f \notin users THEN 401
  ELSE IF role(f) # "faculty" THEN 403
  ELSE IF a \notin DOMAIN applications THEN 404
  ELSE IF applications[a].project \notin DOMAIN projects THEN 500
  ELSE 200
\* the checks shared by select and reject; a populated project that no
\* longer exists is null and reading its faculty throws (500)
decideCode(f, a) ==
  IF f \notin users THEN 401
  ELSE IF role(f) # "faculty" THEN 403
  ELSE IF a \notin DOMAIN applications THEN 404
  ELSE IF applications[a].project \notin DOMAIN projects THEN 500
  ELSE IF projects[applications[a].project].faculty # f THEN 403
  ELSE 200

existingSelection(s) ==
  \E b \in applicationsOf(s) : applications[b].status = "selected"

\* the checks with the selection looked up on the same project only
selectCodeSameProject(f, a) ==
  IF decideCode(f, a) # 200 THEN decideCode(f, a)
  ELSE IF \E b \in applicationsOf(applications[a].student) :
            /\ applications[b].status = "selected"
            /\ applications[b].project = applications[a].project THEN 400
  ELSE 200
\* lines 602-624
selectCode(f, a) ==
  IF decideCode(f, a) # 200 THEN decideCode(f, a)
  ELSE IF existingSelection(applications[a].student) THEN 400
  ELSE 200

\* the save of line 627 without the updateMany of 629-632
selectedOnly(a) == [applications EXCEPT ![a].status = "selected"]
\* lines 626-632
selected(a) ==
  [b \in DOMAIN applications |->
     IF b = a THEN [applications[b] EXCEPT !.status = "selected"]
     ELSE IF applications[b].student = applications[a].student
     THEN [applications[b] EXCEPT !.status = "rejected"]
     ELSE applications[b]]

SelectApplication(f, a) ==
  LET code == selectCode(f, a)
  IN /\ respond("select", code)
     /\ IF code = 200
        THEN /\ applications' = selected(a)
             /\ UNCHANGED <<users, projectsReviewed, projects, assignedReviewers, requests>>
        ELSE UNCHANGED <<users, projectsReviewed, projects, applications,
                         assignedReviewers, requests>>

\* the reject that leaves the seats alone
RejectApplicationKeepingSeat(f, a) ==
  LET code == decideCode(f, a)
  IN /\ respond("rejectApplication", code)
     /\ IF code = 200
        THEN /\ applications' = [applications EXCEPT ![a].status = "rejected"]
             /\ UNCHANGED <<users, projectsReviewed, projects, assignedReviewers,
                            requests>>
        ELSE UNCHANGED <<users, projectsReviewed, projects, applications,
                         assignedReviewers, requests>>
\* lines 640-668
RejectApplication(f, a) ==
  LET code == decideCode(f, a)
      p == applications[a].project
  IN /\ respond("rejectApplication", code)
     /\ IF code = 200
        THEN /\ applications' = [applications EXCEPT ![a].status = "rejected"]
             /\ projects' = [projects EXCEPT ![p].seatsAvailable = @ + 1]
             /\ UNCHANGED <<users, projectsReviewed, assignedReviewers, requests>>
        ELSE UNCHANGED <<users, projectsReviewed, projects, applications,
                         assignedReviewers, requests>>

-----------------------------------------------------------------------------
(* DELETE /api/admin/user/:id and POST /api/admin/reset-user/:id *)

adminCode(actor, u) ==
  IF actor \notin users THEN 401
  ELSE IF role(actor) # "admin" THEN 403
  ELSE IF u \notin users THEN 404
  ELSE 200

\* Project.deleteMany({ faculty: user._id })
projectsWithout(u) ==
  Restrict(projects, {p \in DOMAIN projects : projects[p].faculty # u})

\* Application.deleteMany({ project: { $in: <ids of the projects of u> } }),
\* the ids being read from the collection left by the deleteMany before it
applicationsWithoutProjectsOf(u) ==
  LET left == projectsWithout(u)
      ids == {p \in DOMAIN left : left[p].faculty = u}
  IN Restrict(applications,
              {a \in DOMAIN applications : applications[a].project \notin ids})

\* Application.deleteMany({ student: user._id })
applicationsWithoutStudent(u) ==
  Restrict(applications, {a \in DOMAIN applications : applications[a].student # u})

clearRelatedData(u) ==
  /\ projects' = IF role(u) = "faculty" THEN projectsWithout(u) ELSE projects
  /\ applications' = IF role(u) = "faculty" THEN applicationsWithoutProjectsOf(u)
                     ELSE IF role(u) = "student" THEN applicationsWithoutStudent(u)
                     ELSE applications

DeleteUser(actor, u) ==
  LET code == adminCode(actor, u)
  IN /\ respond("deleteUser", code)
     /\ IF code = 200
        THEN /\ clearRelatedData(u)
             /\ users' = users \ {u}
             /\ UNCHANGED <<projectsReviewed, assignedReviewers, requests>>
        ELSE UNCHANGED <<users, projectsReviewed, projects, applications,
                         assignedReviewers, requests>>

ResetUser(actor, u) ==
  LET code == adminCode(actor, u)
  IN /\ respond("resetUser", code)
     /\ IF code = 200
        THEN /\ clearRelatedData(u)
             /\ projectsReviewed' =
                  IF role(u) = "faculty" THEN [projectsReviewed EXCEPT ![u] = 0]
                  ELSE projectsReviewed
             /\ UNCHANGED <<users, assignedReviewers, requests>>
        ELSE UNCHANGED <<users, projectsReviewed, projects, applications,
                         assignedReviewers, requests>>

-----------------------------------------------------------------------------
(* POST /api/projects, one action per await: the handler reads the project *)
(* count, reads the ring and the counters of its reviewers, inserts the    *)
(* project and increments the counters.  Other requests run in between.    *)

withoutRequest(r) == Restrict(requests, DOMAIN requests \ {r})

receiveCode(f, abstractLength) ==
  IF f \notin users THEN 401
  ELSE IF role(f) # "faculty" THEN 403
  ELSE IF abstractLength > MaxAbstractLength THEN 400
  ELSE 0

\* lines 338-352: the checks, then await Project.countDocuments(...)
SubmitReceive(r, f, abstractLength, seats) ==
  LET code == receiveCode(f, abstractLength)
  IN /\ r \notin DOMAIN requests
     /\ IF code = 0
        THEN /\ requests' = (r :> [faculty |-> f, seats |-> seats, pc |-> "find",
                                   projectCount |-> projectCount(areaOfResearch(f)),
                                   reviewers |-> <<>>]) @@ requests
             /\ UNCHANGED response
        ELSE /\ respond("submit", code)
             /\ UNCHANGED requests
     /\ UNCHANGED <<users, projectsReviewed, projects, applications, assignedReviewers>>

findCode(f, count) ==
  IF notEnoughFaculty(areaOfResearch(f), f) THEN 500
  ELSE IF overloadedReviewer(getNextReviewers(areaOfResearch(f), f, count)) THEN 400
  ELSE 0

\* lines 354-362: await getNextReviewers(...), then the workload check on the
\* documents just read
SubmitFind(r) ==
  LET req == requests[r]
      code == findCode(req.faculty, req.projectCount)
  IN /\ r \in DOMAIN requests
     /\ req.pc = "find"
     /\ IF code = 0
        THEN /\ requests' =
                  [requests EXCEPT ![r].pc = "save",
                                   ![r].reviewers =
                                      getNextReviewers(areaOfResearch(req.faculty),
                                                       req.faculty, req.projectCount)]
             /\ UNCHANGED response
        ELSE /\ respond("submit", code)
             /\ requests' = withoutRequest(r)
     /\ UNCHANGED <<users, projectsReviewed, projects, applications, assignedReviewers>>

\* lines 364-374: await project.save()
SubmitSave(r) ==
  LET req == requests[r]
      id == nextProjectId
  IN /\ r \in DOMAIN requests
     /\ req.pc = "save"
     /\ IF req.seats < 1
        THEN /\ respond("submit", 500)
             /\ requests' = withoutRequest(r)
             /\ UNCHANGED <<projects, assignedReviewers>>
        ELSE /\ projects' = (id :> newProject(req.faculty, req.seats)) @@ projects
             /\ assignedReviewers' = (id :> req.reviewers) @@ assignedReviewers
             /\ requests' = [requests EXCEPT ![r].pc = "inc"]
             /\ UNCHANGED response
     /\ UNCHANGED <<users, projectsReviewed, applications>>

\* lines 376-384: await User.updateMany(..., $inc), then the answer
SubmitIncrement(r) ==
  LET req == requests[r]
  IN /\ r \in DOMAIN requests
     /\ req.pc = "inc"
     /\ projectsReviewed' = incrementReviewers(req.reviewers)
     /\ requests' = withoutRequest(r)
     /\ respond("submit", 201)
     /\ UNCHANGED <<users, projects, applications, assignedReviewers>>

-----------------------------------------------------------------------------
(* Spec: the review cycle and the admin operations, every handler atomic.  *)

Proposers == {"f1", "f2", "s1"}
Reviewers == {"f2", "g1", "s1"}
AdminActors == {"admin", "f2"}
AdminTargets == {"f1"}
AbstractLengths == {MaxAbstractLength, MaxAbstractLength + 1}
CommentLengths == {0, MaxCommentLength, MaxCommentLength + 1}
SeatChoices == {0, 1}
ProjectIds == 1..MaxProjects

mayApprove(f, p) ==
  reviewCode(f, p) = 200 => Len(projects[p].reviewedBy) < MaxApprovals

mayReject(f, p, n) ==
  rejectCode(f, p, n) = 200 => Len(projects[p].rejectionComments) < MaxRejections

Next ==
  \/ \E f \in Proposers, n \in AbstractLengths, k \in SeatChoices :
       nextProjectId <= MaxProjects /\ SubmitProject(f, n, k)
  \/ \E f \in Reviewers, p \in ProjectIds : mayApprove(f, p) /\ ApproveProject(f, p)
  \/ \E f \in Reviewers, p \in ProjectIds, n \in CommentLengths :
       mayReject(f, p, n) /\ RejectProject(f, p, n)
  \/ \E actor \in AdminActors, u \in AdminTargets : DeleteUser(actor, u)
  \/ \E actor \in AdminActors, u \in AdminTargets : ResetUser(actor, u)

Spec == Init /\ [][Next]_vars

-----------------------------------------------------------------------------
(* SpecSubmit: project submissions interleaved at their awaits.            *)

SubmitProposers == {"f1", "f2"}
RequestSlots == 1..MaxInFlight

NextSubmit ==
  \/ \E r \in RequestSlots, f \in SubmitProposers :
       /\ nextProjectId + Cardinality(DOMAIN requests) <= MaxSubmitted
       /\ SubmitReceive(r, f, MaxAbstractLength, 1)
  \/ \E r \in RequestSlots : SubmitFind(r)
  \/ \E r \in RequestSlots : SubmitSave(r)
  \/ \E r \in RequestSlots : SubmitIncrement(r)

SpecSubmit == Init /\ [][NextSubmit]_vars

-----------------------------------------------------------------------------
(* SpecAssign: reviewer assignment.  Submissions in an area of 6 faculty   *)
(* (ring of 5) and in an area of 7 (ring of 6), and the admin reset that   *)
(* deletes the projects of a proposer.                                     *)

AssignProposers == {"f1", "g1"}
AssignResets == {"g1"}

NextAssign ==
  \/ \E f \in AssignProposers :
       nextProjectId <= MaxAssigned /\ SubmitProject(f, MaxAbstractLength, 2)
  \/ \E u \in AssignResets : ResetUser("admin", u)

SpecAssign == Init /\ [][NextAssign]_vars

-----------------------------------------------------------------------------
(* SpecApplications: one-seat projects of f1 are submitted and approved    *)
(* one after the other, two students apply and faculty reject             *)
(* applications; every handler atomic.                                     *)

Applicants == {"s1", "s2", "f1"}
Deciders == {"f1", "f2", "s1"}
OfferedIds == 1..MaxOffered
ApplicationIds == 1..MaxApplications

mayApply(s, p) == applyCode(s, p) = 201 => nextApplicationId <= MaxApplications

mayRejectApplication(f, a) ==
  decideCode(f, a) = 200
    => projects[applications[a].project].seatsAvailable < MaxSeatsAvailable

NextApplications ==
  \/ /\ nextProjectId <= MaxOffered
     /\ \A p \in DOMAIN projects : projects[p].status = "approved"
     /\ SubmitProject("f1", MaxAbstractLength, 1)
  \/ \E p \in OfferedIds :
       /\ p \in DOMAIN projects
       /\ projects[p].status = "pending"
       /\ ApproveProject("f2", p)
  \/ \E s \in Applicants, p \in OfferedIds : mayApply(s, p) /\ Apply(s, p)
  \/ \E f \in Deciders, a \in ApplicationIds :
       mayRejectApplication(f, a) /\ RejectApplication(f, a)

SpecApplications == Init /\ [][NextApplications]_vars

-----------------------------------------------------------------------------
(* POST /api/applications, one step per await.  A request in flight is a   *)
(* record [student, project, pc, seatsAvailable]; seatsAvailable is the    *)
(* field of the project document the handler holds after findById.         *)

applyReceiveCode(s) ==
  IF s \notin users THEN 401
  ELSE IF role(s) # "student" THEN 403
  ELSE 0

\* lines 511-517: the role check, then await Application.countDocuments(...)
ApplyReceive(r, s, p) ==
  LET code == applyReceiveCode(s)
  IN /\ r \notin DOMAIN requests
     /\ IF code = 0
        THEN /\ requests' = (r :> [student |-> s, project |-> p,
                                   pc |-> "countDocuments",
                                   seatsAvailable |-> 0]) @@ requests
             /\ UNCHANGED response
        ELSE /\ respond("apply", code)
             /\ UNCHANGED requests
     /\ UNCHANGED <<users, projectsReviewed, projects, applications, assignedReviewers>>

\* lines 517-520: the count is read, then the limit check
ApplyCountDocuments(r) ==
  LET req == requests[r]
  IN /\ r \in DOMAIN requests
     /\ req.pc = "countDocuments"
     /\ IF Cardinality(applicationsOf(req.student)) >= ApplicationLimit
        THEN /\ respond("apply", 400)
             /\ requests' = withoutRequest(r)
        ELSE /\ requests' = [requests EXCEPT ![r].pc = "findOne"]
             /\ UNCHANGED response
     /\ UNCHANGED <<users, projectsReviewed, projects, applications, assignedReviewers>>

\* lines 522-528: await Application.findOne({ student, project })
ApplyFindOne(r) ==
  LET req == requests[r]
  IN /\ r \in DOMAIN requests
     /\ req.pc = "findOne"
     /\ IF \E a \in applicationsOf(req.student) :
             applications[a].project = req.project
        THEN /\ respond("apply", 400)
             /\ requests' = withoutRequest(r)
        ELSE /\ requests' = [requests EXCEPT ![r].pc = "findById"]
             /\ UNCHANGED response
     /\ UNCHANGED <<users, projectsReviewed, projects, applications, assignedReviewers>>

applyFindByIdCode(p) ==
  IF p \notin DOMAIN projects THEN 404
  ELSE IF projects[p].status # "approved" THEN 400
  ELSE IF projects[p].seatsAvailable <= 0 THEN 400
  ELSE 0

\* lines 530-539: await Project.findById(projectId), then the checks on the
\* document just read
ApplyFindById(r) ==
  LET req == requests[r]
      code == applyFindByIdCode(req.project)
  IN /\ r \in DOMAIN requests
     /\ req.pc = "findById"
     /\ IF code = 0
        THEN /\ requests' =
                  [requests EXCEPT ![r].pc = "applicationSave",
                                   ![r].seatsAvailable =
                                      projects[req.project].seatsAvailable]
             /\ UNCHANGED response
        ELSE /\ respond("apply", code)
             /\ requests' = withoutRequest(r)
     /\ UNCHANGED <<users, projectsReviewed, projects, applications, assignedReviewers>>

\* lines 541-549: await application.save()
ApplyApplicationSave(r) ==
  LET req == requests[r]
      id == nextApplicationId
  IN /\ r \in DOMAIN requests
     /\ req.pc = "applicationSave"
     /\ applications' =
          (id :> [student |-> req.student, project |-> req.project,
                  status |-> "pending"]) @@ applications
     /\ requests' = [requests EXCEPT ![r].pc = "projectSave"]
     /\ UNCHANGED <<users, projectsReviewed, projects, assignedReviewers, response>>

\* the decrement applied to the stored field, as a $inc would
seatsAfterApplyStored(r) == projects[requests[r].project].seatsAvailable - 1
\* line 551: project.seatsAvailable -= 1 on the document held by the handler
seatsAfterApply(r) == requests[r].seatsAvailable - 1

\* lines 551-555: await project.save() writes the modified field of the
\* handler's document, then the answer
ApplyProjectSave(r) ==
  LET req == requests[r]
  IN /\ r \in DOMAIN requests
     /\ req.pc = "projectSave"
     /\ requests' = withoutRequest(r)
     /\ IF req.project \in DOMAIN projects
        THEN /\ projects' =
                  [projects EXCEPT ![req.project].seatsAvailable = seatsAfterApply(r)]
             /\ respond("apply", 201)
        ELSE /\ respond("apply", 500)
             /\ UNCHANGED projects
     /\ UNCHANGED <<users, projectsReviewed, applications, assignedReviewers>>

-----------------------------------------------------------------------------
(* POST /api/applications/:id/select, one step per await.  A request in    *)
(* flight is a record [faculty, application, pc, student].                 *)

selectReceiveCode(f) ==
  IF f \notin users THEN 401
  ELSE IF role(f) # "faculty" THEN 403
  ELSE 0

\* lines 602-608: the role check, then await Application.findById(...)
SelectReceive(r, f, a) ==
  LET code == selectReceiveCode(f)
  IN /\ r \notin DOMAIN requests
     /\ IF code = 0
        THEN /\ requests' = (r :> [faculty |-> f, application |-> a,
                                   pc |-> "findById", student |-> "none"])
                             @@ requests
             /\ UNCHANGED response
        ELSE /\ respond("select", code)
             /\ UNCHANGED requests
     /\ UNCHANGED <<users, projectsReviewed, projects, applications, assignedReviewers>>

selectFindByIdCode(f, a) ==
  IF a \notin DOMAIN applications THEN 404
  ELSE IF applications[a].project \notin DOMAIN projects THEN 500
  ELSE IF projects[applications[a].project].faculty # f THEN 403
  ELSE 0

\* lines 606-616: the application is read and populated, then the checks
SelectFindById(r) ==
  LET req == requests[r]
      code == selectFindByIdCode(req.faculty, req.application)
  IN /\ r \in DOMAIN requests
     /\ req.pc = "findById"
     /\ IF code = 0
        THEN /\ requests' =
                  [requests EXCEPT ![r].pc = "findOne",
                                   ![r].student =
                                      applications[req.application].student]
             /\ UNCHANGED response
        ELSE /\ respond("select", code)
             /\ requests' = withoutRequest(r)
     /\ UNCHANGED <<users, projectsReviewed, projects, applications, assignedReviewers>>

\* lines 618-624: await Application.findOne({ student, status: 'selected' })
SelectFindOne(r) ==
  LET req == requests[r]
  IN /\ r \in DOMAIN requests
     /\ req.pc = "findOne"
     /\ IF existingSelection(req.student)
        THEN /\ respond("select", 400)
             /\ requests' = withoutRequest(r)
        ELSE /\ requests' = [requests EXCEPT ![r].pc = "applicationSave"]
             /\ UNCHANGED response
     /\ UNCHANGED <<users, projectsReviewed, projects, applications, assignedReviewers>>

\* lines 626-627: application.status = 'selected'; await application.save()
SelectApplicationSave(r) ==
  LET req == requests[r]
  IN /\ r \in DOMAIN requests
     /\ req.pc = "applicationSave"
     /\ IF req.application \in DOMAIN applications
        THEN /\ applications' =
                  [applications EXCEPT ![req.application].status = "selected"]
             /\ requests' = [requests EXCEPT ![r].pc = "updateMany"]
             /\ UNCHANGED response
        ELSE /\ respond("select", 500)
             /\ requests' = withoutRequest(r)
             /\ UNCHANGED applications
     /\ UNCHANGED <<users, projectsReviewed, projects, assignedReviewers>>

\* lines 629-634: await Application.updateMany(...), then the answer
SelectUpdateMany(r) ==
  LET req == requests[r]
  IN /\ r \in DOMAIN requests
     /\ req.pc = "updateMany"
     /\ applications' =
          [b \in DOMAIN applications |->
             IF applications[b].student = req.student /\ b # req.application
             THEN [applications[b] EXCEPT !.status = "rejected"]
             ELSE applications[b]]
     /\ respond("select", 200)
     /\ requests' = withoutRequest(r)
     /\ UNCHANGED <<users, projectsReviewed, projects, assignedReviewers>>

-----------------------------------------------------------------------------
(* SpecApply: one-seat projects of f1 are submitted and approved one after *)
(* the other; then the apply requests of two students are interleaved at   *)
(* their awaits.                                                           *)

ApplyStudents == {"s1", "s2"}
ListedIds == 1..MaxListed
ConcurrentSlots == {1, 2}

allApproved == \A p \in DOMAIN projects : projects[p].status = "approved"

allListed == nextProjectId > MaxListed /\ allApproved

\* the free request slot taken by the next request
freeSlot(r) ==
  r \notin DOMAIN requests /\ \A q \in ConcurrentSlots \ DOMAIN requests : r <= q

NextApply ==
  \/ /\ nextProjectId <= MaxListed
     /\ allApproved
     /\ SubmitProject("f1", MaxAbstractLength, 1)
  \/ \E p \in ListedIds :
       /\ p \in DOMAIN projects
       /\ projects[p].status = "pending"
       /\ ApproveProject("f3", p)
  \/ \E r \in ConcurrentSlots, s \in ApplyStudents, p \in ListedIds :
       /\ allListed
       /\ freeSlot(r)
       /\ Cardinality(DOMAIN applications) + Cardinality(DOMAIN requests) < MaxApplied
       /\ ApplyReceive(r, s, p)
  \/ \E r \in ConcurrentSlots : ApplyCountDocuments(r)
  \/ \E r \in ConcurrentSlots : ApplyFindOne(r)
  \/ \E r \in ConcurrentSlots : ApplyFindById(r)
  \/ \E r \in ConcurrentSlots : ApplyApplicationSave(r)
  \/ \E r \in ConcurrentSlots : ApplyProjectSave(r)

SpecApply == Init /\ [][NextApply]_vars

-----------------------------------------------------------------------------
(* SpecSelect: projects of f1 and f2 are submitted and approved one after  *)
(* the other and students apply; then the select requests of the owners    *)
(* are interleaved at their awaits.                                        *)

SelectOwners == {"f1", "f2"}

\* the owners take turns: f1 submits the odd projects, f2 the even ones
listedOwner(p) == IF p % 2 = 1 THEN "f1" ELSE "f2"

NextSelect ==
  \/ /\ nextProjectId <= MaxListed
     /\ allApproved
     /\ SubmitProject(listedOwner(nextProjectId), MaxAbstractLength, 2)
  \/ \E p \in ListedIds :
       /\ p \in DOMAIN projects
       /\ projects[p].status = "pending"
       /\ ApproveProject("f3", p)
  \/ \E s \in ApplyStudents, p \in ListedIds :
       /\ allListed
       /\ requests = <<>>
       /\ mayApply(s, p)
       /\ Apply(s, p)
  \/ \E r \in ConcurrentSlots, f \in SelectOwners, a \in ApplicationIds :
       /\ allListed
       /\ freeSlot(r)
       /\ a \in DOMAIN applications
       /\ SelectReceive(r, f, a)
  \/ \E r \in ConcurrentSlots : SelectFindById(r)
  \/ \E r \in ConcurrentSlots : SelectFindOne(r)
  \/ \E r \in ConcurrentSlots : SelectApplicationSave(r)
  \/ \E r \in ConcurrentSlots : SelectUpdateMany(r)

SpecSelect == Init /\ [][NextSelect]_vars

-----------------------------------------------------------------------------
(* SpecChoice: projects of f1 are submitted and approved one after the     *)
(* other; one student applies to them and faculty select; every handler    *)
(* atomic.                                                                 *)

ChoiceIds == 1..MaxChoices
ChoiceApplications == 1..ApplicationLimit

NextChoice ==
  \/ /\ nextProjectId <= MaxChoices
     /\ allApproved
     /\ SubmitProject("f1", MaxAbstractLength, 2)
  \/ \E p \in ChoiceIds :
       /\ p \in DOMAIN projects
       /\ projects[p].status = "pending"
       /\ ApproveProject("f3", p)
  \/ \E p \in ChoiceIds : Apply("s1", p)
  \/ \E f \in Deciders, a \in ChoiceApplications : SelectApplication(f, a)

SpecChoice == Init /\ [][NextChoice]_vars

-----------------------------------------------------------------------------
(* SpecDecide: a one-seat project of f1 is submitted and approved, two     *)
(* students apply, and faculty select and reject the applications; every   *)
(* handler atomic.                                                         *)

NextDecide ==
  \/ /\ nextProjectId <= MaxProjects
     /\ allApproved
     /\ SubmitProject("f1", MaxAbstractLength, 1)
  \/ \E p \in ProjectIds :
       /\ p \in DOMAIN projects
       /\ projects[p].status = "pending"
       /\ ApproveProject("f3", p)
  \/ \E s \in Students, p \in ProjectIds : mayApply(s, p) /\ Apply(s, p)
  \/ \E f \in SelectOwners, a \in ApplicationIds : SelectApplication(f, a)
  \/ \E f \in SelectOwners, a \in ApplicationIds :
       mayRejectApplication(f, a) /\ RejectApplication(f, a)

SpecDecide == Init /\ [][NextDecide]_vars

-----------------------------------------------------------------------------
(* SpecReview: a one-seat project of f1 is approved while it is pending    *)
(* and rejected at most once, by a colleague of its area and by a faculty  *)
(* member of the other area, while s1 applies and the owner decides on the *)
(* application; every handler atomic.                                      *)

AreaReviewers == {"f3", "g1"}

NextReview ==
  \/ /\ nextProjectId <= MaxProjects
     /\ allApproved
     /\ SubmitProject("f1", MaxAbstractLength, 1)
  \/ \E f \in AreaReviewers, p \in ProjectIds :
       /\ p \in DOMAIN projects
       /\ projects[p].status = "pending"
       /\ ApproveProject(f, p)
  \/ \E f \in AreaReviewers, p \in ProjectIds :
       /\ p \in DOMAIN projects
       /\ projects[p].rejectionComments = <<>>
       /\ RejectProject(f, p, MaxCommentLength)
  \/ \E p \in ProjectIds : mayApply("s1", p) /\ Apply("s1", p)
  \/ \E a \in ApplicationIds : SelectApplication("f1", a)
  \/ \E a \in ApplicationIds :
       mayRejectApplication("f1", a) /\ RejectApplication("f1", a)

SpecReview == Init /\ [][NextReview]_vars

-----------------------------------------------------------------------------
(* SpecWorkload: f1 and f2 submit one project after the other, each        *)
(* approved by three approvals of f3 before the next is submitted; every   *)
(* handler atomic.                                                         *)

WorkloadProposers == {"f1", "f2"}

NextWorkload ==
  \/ \E f \in WorkloadProposers :
       /\ nextProjectId <= MaxConcluded
       /\ allApproved
       /\ SubmitProject(f, MaxAbstractLength, 1)
  \/ \E p \in DOMAIN projects :
       /\ projects[p].status = "pending"
       /\ ApproveProject("f3", p)

SpecWorkload == Init /\ [][NextWorkload]_vars

-----------------------------------------------------------------------------
(* POST /api/projects/:id/approve, one step per await.  A request holds    *)
(* the caller, the project id and, once the project is read, whether the   *)
(* local copy counted three approvals after the push.                      *)

approveReceiveCode(f) ==
  IF f \notin users THEN 401
  ELSE IF role(f) # "faculty" THEN 403
  ELSE 0

\* lines 437-441: the role check, then await Project.findById(...)
ApproveReceive(r, f, p) ==
  LET code == approveReceiveCode(f)
  IN /\ r \notin DOMAIN requests
     /\ IF code = 0
        THEN /\ requests' = (r :> [faculty |-> f, project |-> p,
                                   pc |-> "findById", approve |-> FALSE])
                             @@ requests
             /\ UNCHANGED response
        ELSE /\ respond("approve", code)
             /\ UNCHANGED requests
     /\ UNCHANGED <<users, projectsReviewed, projects, applications, assignedReviewers>>

approveFindByIdCode(f, p) ==
  IF p \notin DOMAIN projects THEN 404
  ELSE IF ~sameArea(f, p) THEN 403
  ELSE 0

\* lines 441-458: the project is read, the checks, the push onto the local
\* copy and the test of its length, then await project.save()
ApproveFindById(r) ==
  LET req == requests[r]
      code == approveFindByIdCode(req.faculty, req.project)
  IN /\ r \in DOMAIN requests
     /\ req.pc = "findById"
     /\ IF code = 0
        THEN /\ requests' =
                  [requests EXCEPT
                     ![r].pc = "save",
                     ![r].approve =
                        Len(projects[req.project].reviewedBy) + 1 >= ApprovalsNeeded]
             /\ UNCHANGED response
        ELSE /\ respond("approve", code)
             /\ requests' = withoutRequest(r)
     /\ UNCHANGED <<users, projectsReviewed, projects, applications, assignedReviewers>>

\* line 458: save() sends the push as $push of the caller onto the stored
\* array, and $set of status only when the local copy changed it
ApproveSave(r) ==
  LET req == requests[r]
      p == req.project
  IN /\ r \in DOMAIN requests
     /\ req.pc = "save"
     /\ requests' = withoutRequest(r)
     /\ IF p \in DOMAIN projects
        THEN /\ projects' =
                  [projects EXCEPT
                     ![p].reviewedBy = Append(@, req.faculty),
                     ![p].status = IF req.approve THEN "approved" ELSE @]
             /\ respond("approve", 200)
        ELSE /\ respond("approve", 500)
             /\ UNCHANGED projects
     /\ UNCHANGED <<users, projectsReviewed, applications, assignedReviewers>>

-----------------------------------------------------------------------------
(* SpecApprove: a project of f1 is approved by three colleagues, each      *)
(* sending one approval; the approvals interleave at their awaits.         *)

PanelReviewers == {"f2", "f3", "f4"}

ApproveSlots == {1, 2, 3}

\* f has neither approved p nor an approval of p under way
notYetApproving(f, p) ==
  /\ p \in DOMAIN projects
  /\ projects[p].status = "pending"
  /\ f \notin Range(projects[p].reviewedBy)
  /\ \A q \in DOMAIN requests :
       ~(requests[q].faculty = f /\ requests[q].project = p)

NextApprove ==
  \/ /\ nextProjectId <= MaxProjects
     /\ requests = <<>>
     /\ SubmitProject("f1", MaxAbstractLength, 1)
  \/ \E r \in ApproveSlots, f \in PanelReviewers, p \in ProjectIds :
       /\ notYetApproving(f, p)
       /\ ApproveReceive(r, f, p)
  \/ \E r \in ApproveSlots : ApproveFindById(r)
  \/ \E r \in ApproveSlots : ApproveSave(r)

SpecApprove == Init /\ [][NextApprove]_vars

-----------------------------------------------------------------------------
(* The listing routes.  They write nothing; the response carries the       *)
(* caller and the documents returned, newest first.                        *)

\* the ids of S in descending order of creation
newestFirst(S) ==
  CHOOSE q \in [1..Cardinality(S) -> S] :
    \A i, j \in 1..Cardinality(S) : i < j => q[i] > q[j]

\* the filter of GET /api/projects: approved projects for a student,
\* every project for any other role
projectFilter(u) ==
  IF role(u) = "student"
  THEN {p \in DOMAIN projects : projects[p].status = "approved"}
  ELSE DOMAIN projects

listing(op, code, u, ps, as) ==
  [op |-> op, code |-> code, user |-> u,
   projects |-> [i \in DOMAIN ps |-> projects[ps[i]]],
   applications |-> [i \in DOMAIN as |-> applications[as[i]]]]

GetProjects(u) ==
  /\ response' = IF u \notin users
                 THEN listing("getProjects", 401, u, <<>>, <<>>)
                 ELSE listing("getProjects", 200, u,
                              newestFirst(projectFilter(u)), <<>>)
  /\ UNCHANGED <<users, projectsReviewed, projects, applications,
                 assignedReviewers, requests>>

GetMyApplications(u) ==
  /\ response' = IF u \notin users
                 THEN listing("getMyApplications", 401, u, <<>>, <<>>)
                 ELSE IF role(u) # "student"
                 THEN listing("getMyApplications", 403, u, <<>>, <<>>)
                 ELSE listing("getMyApplications", 200, u, <<>>,
                              newestFirst(applicationsOf(u)))
  /\ UNCHANGED <<users, projectsReviewed, projects, applications,
                 assignedReviewers, requests>>

\* the applications whose populated project is owned by u
facultyApplications(u) ==
  {a \in DOMAIN applications :
     /\ applications[a].project \in DOMAIN projects
     /\ projects[applications[a].project].faculty = u}

GetFacultyApplications(u) ==
  /\ response' = IF u \notin users
                 THEN listing("getFacultyApplications", 401, u, <<>>, <<>>)
                 ELSE IF role(u) # "faculty"
                 THEN listing("getFacultyApplications", 403, u, <<>>, <<>>)
                 ELSE listing("getFacultyApplications", 200, u, <<>>,
                              newestFirst(facultyApplications(u)))
  /\ UNCHANGED <<users, projectsReviewed, projects, applications,
                 assignedReviewers, requests>>

-----------------------------------------------------------------------------
(* SpecListing: a project of f1 is submitted and approved, students apply, *)
(* and an admin, the owner, a colleague and a student call the listing     *)
(* routes.                                                                 *)

Listers == {"admin", "f1", "f2", "s1"}

NextListing ==
  \/ /\ nextProjectId <= MaxProjects
     /\ allApproved
     /\ SubmitProject("f1", MaxAbstractLength, 2)
  \/ \E p \in ProjectIds :
       /\ p \in DOMAIN projects
       /\ projects[p].status = "pending"
       /\ ApproveProject("f3", p)
  \/ \E s \in Students, p \in ProjectIds : mayApply(s, p) /\ Apply(s, p)
  \/ \E u \in Listers : GetProjects(u)
  \/ \E u \in Listers : GetMyApplications(u)
  \/ \E u \in Listers : GetFacultyApplications(u)

SpecListing == Init /\ [][NextListing]_vars

-----------------------------------------------------------------------------
(* SpecAdmin: a one-seat project of f1 is submitted and approved, two      *)
(* students apply, and the admin deletes or resets the owner or a student; *)
(* every handler atomic.                                                   *)

ClearedUsers == {"f1", "s1"}

NextAdmin ==
  \/ /\ nextProjectId <= MaxProjects
     /\ allApproved
     /\ SubmitProject("f1", MaxAbstractLength, 2)
  \/ \E p \in ProjectIds :
       /\ p \in DOMAIN projects
       /\ projects[p].status = "pending"
       /\ ApproveProject("f3", p)
  \/ \E s \in Students, p \in ProjectIds : mayApply(s, p) /\ Apply(s, p)
  \/ \E actor \in AdminActors, u \in ClearedUsers : DeleteUser(actor, u)
  \/ \E actor \in AdminActors, u \in ClearedUsers : ResetUser(actor, u)

SpecAdmin == Init /\ [][NextAdmin]_vars

-----------------------------------------------------------------------------
(* Vocabulary of the properties *)

panel(p) == Range(assignedReviewers[p])

rejecters(p) == {projects[p].rejectionComments[i].faculty :
                   i \in DOMAIN projects[p].rejectionComments}

reviewersOf(p) == Range(projects[p].reviewedBy) \cup rejecters(p)

approvals(p) == Len(projects[p].reviewedBy)

rejections(p) == Len(projects[p].rejectionComments)

terminal(status) == status \in {"approved", "rejected"}

\* the projects that exist before and after a step
kept == DOMAIN projects \cap DOMAIN projects'

reviewSubmitted(f, p) ==
  ApproveProject(f, p) \/ \E n \in CommentLengths : RejectProject(f, p, n)

pendingAssignments(u) ==
  Cardinality({p \in DOMAIN projects :
                 projects[p].status = "pending" /\ u \in panel(p)})

answered(op, code) == response = [op |-> op, code |-> code]

\* the faculty members of f's research area other than f
peers(f) ==
  {u \in users : /\ role(u) = "faculty"
                 /\ areaOfResearch(u) = areaOfResearch(f)
                 /\ u # f}

\* the position of u in S ordered by ascending login id, counted from 0
rank(u, S) == Cardinality({v \in S : loginId(v) < loginId(u)})

\* s holds 5 consecutive entries of f's ring, wrapping, from index count * 5
rotation(s, f, count) ==
  /\ DOMAIN s = 1..5
  /\ \A i \in 1..5 :
       /\ s[i] \in peers(f)
       /\ rank(s[i], peers(f)) = (count * 5 + (i - 1)) % Cardinality(peers(f))

\* the applications of student s for project p
applicationsFor(s, p) ==
  {a \in DOMAIN applications :
     applications[a].student = s /\ applications[a].project = p}

\* the applications for project p
applicationsTo(p) == {a \in DOMAIN applications : applications[a].project = p}

\* p exists, is approved and has a seat left
open(p) ==
  /\ p \in DOMAIN projects
  /\ projects[p].status = "approved"
  /\ projects[p].seatsAvailable > 0

\* the seats remaining of every project
seatsRemaining == [p \in DOMAIN projects |-> projects[p].seatsAvailable]

\* status and recorded reviews of every project
reviewState ==
  [p \in DOMAIN projects |->
     [status |-> projects[p].status,
      reviewedBy |-> projects[p].reviewedBy,
      rejectionComments |-> projects[p].rejectionComments]]

\* seats remaining of every project
seatState == [p \in DOMAIN projects |-> projects[p].seatsAvailable]

\* the projects owned by u
projectsOf(u) == {p \in DOMAIN projects : projects[p].faculty = u}

\* the admin has just deleted or reset the account u
cleared(u) ==
  /\ response'.code = 200
  /\ \E actor \in AdminActors : DeleteUser(actor, u) \/ ResetUser(actor, u)

\* the projects created by a step
created == DOMAIN projects' \ DOMAIN projects

\* the proposals ever submitted in an area (a panel is of its proposer's area)
everSubmitted(area) ==
  Cardinality({p \in DOMAIN assignedReviewers :
                 areaOfResearch(assignedReviewers[p][1]) = area})

\* the number of panels ever assigned that contain u
assignments(u) ==
  Cardinality({p \in DOMAIN assignedReviewers : u \in panel(p)})

\* one of the 5 candidate reviewers of a submission by f has load >= 7
candidateOverloaded(f) ==
  \E u \in peers(f) :
    /\ projectsReviewed[u] >= 7
    /\ \E i \in 0..4 :
         rank(u, peers(f)) =
           (Cardinality({p \in DOMAIN projects :
                          /\ projects[p].faculty \in users
                          /\ areaOfResearch(projects[p].faculty) = areaOfResearch(f)}) * 5 + i)
             % Cardinality(peers(f))

-----------------------------------------------------------------------------
(* C1: an approve or reject submission by a faculty member who is not one  *)
(* of the 5 reviewers assigned to the proposal (the owner included) fails  *)
(* and changes neither the proposal nor any load counter.                  *)
C1_OnlyAssignedReviewersReview ==
  [][\A f \in Reviewers, p \in DOMAIN projects :
       (f \notin panel(p) /\ reviewSubmitted(f, p))
         => (response'.code # 200 /\ UNCHANGED <<projects, projectsReviewed>>)]_vars

(* C2: once a proposal is approved or rejected its status never changes    *)
(* again and no further approve or reject submission is recorded on it.    *)
C2_TerminalStatusIsFinal ==
  [][\A p \in kept :
       terminal(projects[p].status)
         => /\ projects'[p].status = projects[p].status
            /\ projects'[p].reviewedBy = projects[p].reviewedBy
            /\ projects'[p].rejectionComments = projects[p].rejectionComments]_vars

(* C3: a second approve or reject submission by a faculty member who has   *)
(* already reviewed the proposal fails and changes neither the proposal    *)
(* nor any load counter.                                                   *)
C3_SecondReviewFails ==
  [][\A f \in Reviewers, p \in DOMAIN projects :
       (f \in reviewersOf(p) /\ reviewSubmitted(f, p))
         => (response'.code # 200 /\ UNCHANGED <<projects, projectsReviewed>>)]_vars

C5_UnanimousApproval ==
  \A p \in DOMAIN projects :
    /\ projects[p].status = "approved" => panel(p) \subseteq Range(projects[p].reviewedBy)
    /\ projects[p].status # "pending" => panel(p) \subseteq reviewersOf(p)

C7_PanelReleasedExactlyOnce ==
  [][\A p \in kept :
       /\ (projects[p].status = "pending" /\ projects'[p].status # "pending")
            => \A u \in Faculty :
                 projectsReviewed'[u] =
                   projectsReviewed[u] - (IF u \in panel(p) THEN 1 ELSE 0)
       /\ (terminal(projects[p].status) /\ projects'[p] # projects[p])
            => projectsReviewed' = projectsReviewed]_vars

(* C8: every faculty member's load counter equals the number of pending    *)
(* proposals whose assigned panel contains that faculty member.            *)
C8_LoadCountsPendingAssignments ==
  \A u \in Faculty \cap users : projectsReviewed[u] = pendingAssignments(u)

(* C9: no faculty member's load counter is ever negative.                  *)
C9_LoadNeverNegative ==
  \A u \in Faculty \cap users : projectsReviewed[u] >= 0

(* C10: no faculty member's load counter ever exceeds 7, also when project *)
(* submissions of one research area are interleaved.                       *)
C10_LoadAtMostSeven ==
  \A u \in Faculty \cap users : projectsReviewed[u] <= 7

(* C11: the panel computed for a new proposal has exactly 5 pairwise       *)
(* distinct faculty members, never contains the proposer and contains only *)
(* faculty of the proposer's research area.                                *)
C11_PanelOfFivePeers ==
  \A p \in DOMAIN projects :
    /\ Len(assignedReviewers[p]) = 5
    /\ Cardinality(panel(p)) = 5
    /\ projects[p].faculty \notin panel(p)
    /\ \A u \in panel(p) :
         /\ role(u) = "faculty"
         /\ areaOfResearch(u) = areaOfResearch(projects[p].faculty)

\* one proposer of an area of 7 has two proposals with different panels
C11_Witness ==
  \E p, q \in DOMAIN projects :
    /\ projects[p].faculty = "g1"
    /\ projects[q].faculty = "g1"
    /\ panel(p) # panel(q)

(* C12: the panel of a new proposal is 5 consecutive entries, wrapping, of *)
(* the ring of the area's faculty other than the proposer in ascending     *)
(* login id order, starting at index (number of proposals previously       *)
(* submitted in that area * 5) mod ring size.                              *)
C12_PanelRotatesBySubmissions ==
  [][\A p \in created :
       rotation(assignedReviewers'[p], projects'[p].faculty,
                everSubmitted(areaOfResearch(projects'[p].faculty)))]_vars

(* C13: while the membership of a research area does not change, the       *)
(* numbers of panels assigned to any two of its faculty members who        *)
(* proposed nothing differ by at most 1.                                   *)
C13_PanelsSharedEqually ==
  users = AllUsers =>
    \A u, v \in Faculty \ AssignProposers :
      areaOfResearch(u) = areaOfResearch(v)
        => assignments(u) - assignments(v) <= 1

(* C14: a submission fails when one of its 5 candidate reviewers already   *)
(* has load 7 or more; no proposal is created and no counter changes.      *)
C14_OverloadedPanelRefused ==
  [][\A f \in AssignProposers :
       (/\ f \in users
        /\ Cardinality(peers(f)) >= 5
        /\ candidateOverloaded(f)
        /\ SubmitProject(f, MaxAbstractLength, 2))
         => (response'.code = 400 /\ UNCHANGED <<projects, projectsReviewed>>)]_vars

\* a submission has just been refused while a reviewer has load 7
C14_Witness ==
  /\ answered("submit", 400)
  /\ \E u \in Faculty : projectsReviewed[u] = 7

(* C15: a submission fails when fewer than 5 faculty members other than    *)
(* the proposer exist in the proposer's area; no proposal is created and   *)
(* no counter changes.                                                     *)
C15_TooFewPeersRefused ==
  [][\A f \in Proposers :
       (/\ response'.op = "submit"
        /\ f \in users
        /\ role(f) = "faculty"
        /\ Cardinality(peers(f)) < 5
        /\ \E n \in AbstractLengths, k \in SeatChoices : SubmitProject(f, n, k))
         => (response'.code >= 400 /\ UNCHANGED <<projects, projectsReviewed>>)]_vars

\* a submission has just failed in an area left with 5 faculty members
C15_Witness ==
  /\ answered("submit", 500)
  /\ "f1" \notin users
  /\ Cardinality(peers("f2")) = 4

(* C16: a successful submission creates exactly one proposal, pending,     *)
(* with seats remaining equal to its capacity and no reviews, and raises   *)
(* by exactly 1 the load of each of its 5 reviewers and of nobody else.    *)
C16_SubmissionEffect ==
  [][/\ (response' = [op |-> "submit", code |-> 201] /\ projects' # projects)
         => Cardinality(created) = 1
     /\ \A p \in created :
          /\ DOMAIN projects' = DOMAIN projects \cup {p}
          /\ \A q \in DOMAIN projects : projects'[q] = projects[q]
          /\ projects'[p].status = "pending"
          /\ projects'[p].seatsAvailable = projects'[p].seats
          /\ projects'[p].reviewedBy = <<>>
          /\ projects'[p].rejectionComments = <<>>
          /\ Cardinality(Range(assignedReviewers'[p])) = 5
          /\ \A u \in Faculty :
               projectsReviewed'[u] =
                 projectsReviewed[u] +
                   (IF u \in Range(assignedReviewers'[p]) THEN 1 ELSE 0)]_vars

\* a second proposal has just been created
C16_Witness ==
  /\ answered("submit", 201)
  /\ Cardinality(DOMAIN projects) >= 2
  /\ \E u \in Faculty : projectsReviewed[u] = 2
(* C17: no student ever has more than 3 applications, also when apply     *)
(* requests are interleaved.                                               *)
C17_AtMostThreeApplications ==
  \A s \in Students : Cardinality(applicationsOf(s)) <= 3

(* C18: no student ever has more than one selected application, also when *)
(* select requests of different faculty members are interleaved.           *)
C18_AtMostOneSelection ==
  \A s \in Students :
    Cardinality({a \in applicationsOf(s) : applications[a].status = "selected"}) <= 1

(* C19: two concurrent apply requests of different students for a proposal *)
(* with exactly one seat never both succeed: while no seat is given back,  *)
(* a one-seat proposal has applications of at most one student.            *)
C19_OneSeatOneApplicant ==
  \A p \in DOMAIN projects :
    projects[p].seats = 1
      => Cardinality({applications[a].student :
                        a \in {b \in DOMAIN applications :
                                 applications[b].project = p}}) <= 1

(* C20: the seats remaining of a proposal are never negative, also when    *)
(* apply requests are interleaved.                                         *)
C20_SeatsNeverNegative ==
  \A p \in DOMAIN projects : projects[p].seatsAvailable >= 0

\* two interleaved applies have both taken the last seat of a proposal
C20_Witness ==
  \E p \in DOMAIN projects :
    /\ projects[p].seatsAvailable = 0
    /\ Cardinality({a \in DOMAIN applications : applications[a].project = p}) >= 2
    /\ requests = <<>>
    /\ answered("apply", 201)

(* C21: the seats remaining of a proposal never exceed its capacity, after *)
(* any sequence of apply, select and reject-application operations.        *)
C21_SeatsAtMostCapacity ==
  \A p \in DOMAIN projects : projects[p].seatsAvailable <= projects[p].seats

(* C22: apply fails whenever the student already has 3 applications,       *)
(* rejected ones counted; it then creates no application and changes no    *)
(* seat count.  A student with 2 applications may still apply once more.   *)
C22_LimitCountsEveryApplication ==
  [][\A s \in Students, p \in ChoiceIds :
       /\ (Cardinality(applicationsOf(s)) >= 3 /\ Apply(s, p))
            => (response'.code = 400 /\ UNCHANGED <<applications, projects>>)
       /\ (/\ Cardinality(applicationsOf(s)) = 2
           /\ applicationsFor(s, p) = {}
           /\ open(p)
           /\ Apply(s, p))
            => (response'.code = 201 /\ Cardinality(applicationsOf(s)') = 3)]_vars

\* an apply has just failed for a student with 3 applications, one rejected
C22_Witness ==
  /\ answered("apply", 400)
  /\ Cardinality(applicationsOf("s1")) = 3
  /\ \E a \in applicationsOf("s1") : applications[a].status = "rejected"
  /\ \E p \in DOMAIN projects : open(p) /\ applicationsFor("s1", p) = {}

(* C23: there are never two applications of one student for one proposal,  *)
(* and an apply for a proposal the student has applied to fails without    *)
(* creating an application or changing a seat count.                       *)
C23_NoDuplicateApplication ==
  \A s \in Students, p \in DOMAIN projects :
    Cardinality(applicationsFor(s, p)) <= 1

(* C24: apply fails, creating no application and changing no seat count,   *)
(* whenever the proposal is not approved or has zero seats remaining.      *)
C24_ClosedProposalRefused ==
  [][\A s \in Applicants, p \in DOMAIN projects :
       (/\ projects[p].status # "approved" \/ projects[p].seatsAvailable = 0
        /\ Apply(s, p))
         => (response'.code >= 400 /\ UNCHANGED <<applications, projects>>)]_vars

\* an apply has just failed only because the proposal has no seat left
C24_Witness ==
  /\ answered("apply", 400)
  /\ \E p \in DOMAIN projects :
       /\ projects[p].status = "approved"
       /\ projects[p].seatsAvailable = 0
       /\ \A q \in DOMAIN projects : q # p => open(q)
       /\ \E s \in Students :
            applicationsOf(s) = {} /\ applicationsTo(p) # {}

(* C25: a successful apply creates exactly one application, pending, for   *)
(* that student and proposal, lowers the seats remaining of that proposal  *)
(* by exactly 1 and leaves every other proposal and application unchanged. *)
C25_ApplyEffect ==
  [][\A s \in Applicants, p \in DOMAIN projects :
       (Apply(s, p) /\ response'.code = 201)
         => \E a \in DOMAIN applications' \ DOMAIN applications :
              /\ DOMAIN applications' = DOMAIN applications \cup {a}
              /\ applications'[a] = [student |-> s, project |-> p, status |-> "pending"]
              /\ \A b \in DOMAIN applications : applications'[b] = applications[b]
              /\ DOMAIN projects' = DOMAIN projects
              /\ projects'[p].seatsAvailable = projects[p].seatsAvailable - 1
              /\ projects'[p].seats = projects[p].seats
              /\ projects'[p].status = projects[p].status
              /\ \A q \in DOMAIN projects \ {p} : projects'[q] = projects[q]]_vars

\* a second application has just been created, on a second proposal
C25_Witness ==
  /\ answered("apply", 201)
  /\ Cardinality(DOMAIN applications) = 2
  /\ \E p, q \in DOMAIN projects :
       /\ p # q
       /\ projects[p].seatsAvailable = 0
       /\ projects[q].seatsAvailable = 0

(* C26: a successful select sets the chosen application to selected, every *)
(* other application of the same student to rejected whatever its status,  *)
(* and changes no proposal's seats remaining.                              *)
C26_SelectEffect ==
  [][\A f \in Deciders, a \in DOMAIN applications :
       (SelectApplication(f, a) /\ response'.code = 200)
         => /\ DOMAIN applications' = DOMAIN applications
            /\ applications'[a].status = "selected"
            /\ \A b \in DOMAIN applications \ {a} :
                 IF applications[b].student = applications[a].student
                 THEN applications'[b].status = "rejected"
                 ELSE applications'[b] = applications[b]
            /\ seatsRemaining' = seatsRemaining]_vars

\* a select has just rejected the two other applications of the student
C26_Witness ==
  /\ answered("select", 200)
  /\ Cardinality(applicationsOf("s1")) = 3
  /\ Cardinality({a \in applicationsOf("s1") : applications[a].status = "rejected"}) = 2
  /\ Cardinality({a \in applicationsOf("s1") : applications[a].status = "selected"}) = 1
  /\ \A p \in DOMAIN projects :
       projects[p].seatsAvailable = projects[p].seats - Cardinality(applicationsTo(p))

(* C27: select fails and changes no application's status when the student  *)
(* of the application already has a selected application on any proposal.  *)
C27_AlreadySelectedRefused ==
  [][\A f \in Deciders, a \in DOMAIN applications :
       (/\ \E b \in DOMAIN applications :
             /\ applications[b].student = applications[a].student
             /\ applications[b].status = "selected"
        /\ SelectApplication(f, a))
         => (response'.code >= 400 /\ UNCHANGED applications)]_vars

\* a select has just been refused for a student selected on another proposal
C27_Witness ==
  /\ answered("select", 400)
  /\ \E a, b \in applicationsOf("s1") :
       /\ applications[a].status = "selected"
       /\ applications[b].status = "pending"
       /\ applications[a].project # applications[b].project

(* C28: select and reject of an application fail when the acting faculty   *)
(* member does not own the application's proposal, and then no             *)
(* application's status and no proposal's seats remaining change.          *)
C28_OnlyOwnerDecides ==
  [][\A f \in SelectOwners, a \in DOMAIN applications :
       (/\ applications[a].project \in DOMAIN projects
        /\ projects[applications[a].project].faculty # f
        /\ SelectApplication(f, a) \/ RejectApplication(f, a))
         => (response'.code = 403 /\ UNCHANGED <<applications, projects>>)]_vars

\* a faculty member who owns no proposal has just been refused a reject
C28_Witness ==
  /\ answered("rejectApplication", 403)
  /\ \E a \in DOMAIN applications : applications[a].status = "pending"
  /\ \A p \in DOMAIN projects : projects[p].faculty = "f1"

(* C29: a successful reject of an application by the owner sets that       *)
(* application to rejected and raises the seats remaining of its proposal  *)
(* by exactly 1, changing no other application and no other proposal.      *)
C29_RejectApplicationEffect ==
  [][\A f \in Deciders, a \in DOMAIN applications :
       (RejectApplication(f, a) /\ response'.code = 200)
         => LET p == applications[a].project
            IN /\ DOMAIN applications' = DOMAIN applications
               /\ applications'[a].status = "rejected"
               /\ applications'[a].student = applications[a].student
               /\ applications'[a].project = p
               /\ \A b \in DOMAIN applications \ {a} :
                    applications'[b] = applications[b]
               /\ DOMAIN projects' = DOMAIN projects
               /\ projects'[p].seatsAvailable = projects[p].seatsAvailable + 1
               /\ projects'[p].status = projects[p].status
               /\ \A q \in DOMAIN projects \ {p} : projects'[q] = projects[q]]_vars

\* a reject has just given back the seat of one of two applications
C29_Witness ==
  /\ answered("rejectApplication", 200)
  /\ \E a, b \in DOMAIN applications :
       /\ applications[a].status = "rejected"
       /\ applications[b].status = "pending"
       /\ applications[a].project # applications[b].project
       /\ projects[applications[a].project].seatsAvailable = 1
       /\ projects[applications[b].project].seatsAvailable = 0

(* C30: no partial mutation is observable in any reachable state, the      *)
(* states between the storage steps of one request included: the load of   *)
(* every faculty member counts the panels created, every stored            *)
(* application has taken a seat of its proposal, and every other           *)
(* application of a student with a selected application is rejected.       *)
C30_NoPartialMutation ==
  /\ \A u \in Faculty : projectsReviewed[u] = assignments(u)
  /\ \A p \in DOMAIN projects :
       projects[p].seatsAvailable + Cardinality(applicationsTo(p)) = projects[p].seats
  /\ \A a, b \in DOMAIN applications :
       (/\ a # b
        /\ applications[a].student = applications[b].student
        /\ applications[a].status = "selected")
         => applications[b].status = "rejected"

(* C31: after an admin deletes or resets a faculty account, no project of  *)
(* that faculty member and no application referring to one of those        *)
(* projects remains; after a student account is deleted or reset, no       *)
(* application of that student remains.                                    *)
C31_AccountDataCleared ==
  [][\A u \in ClearedUsers :
       cleared(u)
         => IF role(u) = "faculty"
            THEN /\ \A p \in DOMAIN projects' : projects'[p].faculty # u
                 /\ \A a \in DOMAIN applications' :
                      applications'[a].project \notin projectsOf(u)
            ELSE \A a \in DOMAIN applications' : applications'[a].student # u]_vars

(* C32: an admin has no access to academic content: every project listing  *)
(* or application listing requested by an admin is denied or returns no    *)
(* project and no student application.                                     *)
C32_AdminSeesNoAcademicContent ==
  (/\ response.op \in {"getProjects", "getMyApplications",
                        "getFacultyApplications"}
   /\ role(response.user) = "admin")
    => \/ response.code # 200
       \/ response.projects = <<>> /\ response.applications = <<>>

(* C34: a rejection whose comment is missing, empty or longer than 2500    *)
(* characters fails, and leaves every project's status and reviews and     *)
(* every load counter unchanged.                                           *)
C34_BadCommentRefused ==
  [][response'.op = "reject"
       => \A f \in Reviewers, p \in ProjectIds, n \in CommentLengths :
            (/\ n = 0 \/ n > MaxCommentLength
             /\ RejectProject(f, p, n))
              => /\ response'.code # 200
                 /\ role(f) = "faculty" => response'.code = 400
                 /\ UNCHANGED <<projects, projectsReviewed>>]_vars

C34_Witness ==
  /\ answered("reject", 400)
  /\ \E p \in DOMAIN projects : projects[p].status = "pending"

(* C39: an application whose status is rejected does not become selected.  *)
C39_RejectedStaysUnselected ==
  [][\A a \in DOMAIN applications \cap DOMAIN applications' :
       applications[a].status = "rejected"
         => applications'[a].status # "selected"]_vars

(* C33: an approval or rejection sent by a faculty member whose research   *)
(* area differs from that of the project's owner fails and changes neither *)
(* the project's status, nor its recorded reviews, nor any load counter.   *)
C33_OtherAreaRefused ==
  [][response'.op \in {"approve", "reject"}
       => \A f \in AreaReviewers, p \in DOMAIN projects :
            (/\ areaOfResearch(f) # areaOfResearch(projects[p].faculty)
             /\ \/ ApproveProject(f, p)
                \/ RejectProject(f, p, MaxCommentLength))
              => /\ response'.code = 403
                 /\ UNCHANGED <<projects, projectsReviewed>>]_vars

C33_Witness ==
  /\ response.op \in {"approve", "reject"}
  /\ response.code = 403
  /\ \E p \in DOMAIN projects : projects[p].status = "pending"

(* C35: applying, selecting and rejecting an application never change a    *)
(* project's status or recorded reviews or a load counter; approving and   *)
(* rejecting a project never change a project's seats remaining or an      *)
(* application.                                                            *)
C35_EnginesKeepApart ==
  [][/\ response'.op \in {"apply", "select", "rejectApplication"}
        => reviewState' = reviewState /\ projectsReviewed' = projectsReviewed
     /\ response'.op \in {"approve", "reject"}
        => seatState' = seatState /\ applications' = applications]_vars

C35_Witness ==
  /\ answered("reject", 200)
  /\ \E a \in DOMAIN applications : applications[a].status = "pending"

(* C38: every application in pending or selected status refers to a        *)
(* project whose status is approved.                                       *)
C38_OpenApplicationsOnApprovedProjects ==
  \A a \in DOMAIN applications :
    applications[a].status \in {"pending", "selected"}
      => /\ applications[a].project \in DOMAIN projects
         /\ projects[applications[a].project].status = "approved"

(* C37: for every project, the number of its applications in pending or    *)
(* selected status never exceeds its seat capacity.                        *)
C37_OpenApplicationsWithinCapacity ==
  \A p \in DOMAIN projects :
    Cardinality({a \in DOMAIN applications :
                   /\ applications[a].project = p
                   /\ applications[a].status \in {"pending", "selected"}})
      <= projects[p].seats

(* C40: whenever no project of a research area is pending, a submission by *)
(* a faculty member of that area who has at least 5 eligible peers is not  *)
(* refused for exceeded workload.                                          *)
C40_ConcludedReviewsDoNotBlock ==
  [][response'.op = "submit"
       => \A f \in WorkloadProposers :
            (/\ \A p \in DOMAIN projects :
                  areaOfResearch(projects[p].faculty) = areaOfResearch(f)
                    => projects[p].status # "pending"
             /\ Cardinality(peers(f)) >= PanelSize
             /\ SubmitProject(f, MaxAbstractLength, 1))
              => response'.code # 400]_vars

(* C36: when approvals of distinct reviewers for the same pending project  *)
(* interleave, no state in which all requests have finished shows a        *)
(* project with three or more recorded approvals and no rejection that is  *)
(* still pending.                                                          *)
C36_ThreeApprovalsApprove ==
  requests = <<>>
    => \A p \in DOMAIN projects :
         ~(/\ Len(projects[p].reviewedBy) >= ApprovalsNeeded
           /\ projects[p].rejectionComments = <<>>
           /\ projects[p].status = "pending")

====
